---- MODULE Spec2Model ----
(***************************************************************************)
(* A model of emojicopier.py: the selection widgets (ExpressionSelect,     *)
(* AttachmentSelect, GuildSelect), the batch copy of BaseCopyView.on_copy  *)
(* with its two subclasses CopyExpressionsView and CopyAttachmentsView,    *)
(* the size reducer CopyAttachmentsView._resize_image and the emoji name   *)
(* derivation of CopyAttachmentsView.copy_emoji.                           *)
(*                                                                         *)
(* on_copy is a coroutine: it is cut at its awaits of remote calls         *)
(* (item.read / item.to_file, guild.create_sticker /                       *)
(* guild.create_custom_emoji); everything between two awaits is one step.  *)
(* _resize_image is a synchronous loop with no exit guarantee, so each of  *)
(* its iterations is a step of its own.                                    *)
(***************************************************************************)
EXTENDS Integers, Sequences, FiniteSets, TLC

(***************************************************************************)
(* Bounds of the model.                                                    *)
(***************************************************************************)
MaxItems == 2      \* size of the catalog of items offered by the item select
MaxGuilds == 2     \* size of the catalog of guilds offered by the guild select
MaxRejections == 2 \* HTTPExceptions the remote raises during one batch run
MaxScale == 3      \* payload sizes up to about MaxScale^2 budgets (SpecResize)
MaxNameLen == 3    \* length of the enumerated filenames (SpecName)

(***************************************************************************)
(* Program constants.                                                      *)
(***************************************************************************)
TargetSize == 256000   \* the byte budget copy_emoji passes to _resize_image
SelectCap == 25        \* min(25, len(...)) of the selects' max_values

Min(a, b) == IF a < b THEN a ELSE b

Items == 1..MaxItems
Guilds == 1..MaxGuilds

Cycle(seq, i) == seq[((i - 1) % Len(seq)) + 1]

(***************************************************************************)
(* The catalogs a view is built from.  copy_expressions tags body emojis   *)
(* MESSAGE, reaction emojis REACTION and GuildStickers STICKER;            *)
(* AttachmentSelect.callback tags every attachment MESSAGE.                *)
(***************************************************************************)
ExpressionLocationOf(i) == Cycle(<<"MESSAGE", "STICKER", "REACTION">>, i)

\* the class of the expression: emojis_in_string builds PartialEmoji, the
\* stickers kept are GuildSticker (isinstance filter), reaction_emojis keeps
\* Emoji and PartialEmoji
ExpressionTypeOf(i) == Cycle(<<"PartialEmoji", "GuildSticker", "Emoji">>, i)

\* isinstance(item, GuildSticker)
IsGuildSticker(i) == ExpressionTypeOf(i) = "GuildSticker"

ExpressionName(i) == <<Cycle(<<"a", "b", "c", "d">>, i)>>

GuildName(g) == <<Cycle(<<"G", "H", "K", "L">>, g)>>

AttachmentFilename(i) ==
    Cycle(<< <<"m", "y", " ", "p", "i", "c", "!", "!", ".", "p", "n", "g">>,
             <<".", "x">>,
             <<"a", ".", "b", ".", "g", "i", "f">> >>, i)

AttachmentSize(i) == Cycle(<<TargetSize, TargetSize + 1, (4 * TargetSize) + 1>>, i)

AttachmentDims(i) == Cycle(<< <<128, 128>>, <<2, 2>>, <<1, 1>> >>, i)

NoBytes == [len |-> 0, dims |-> <<0, 0>>, reencoded |-> FALSE]

NoReport == <<>>

VARIABLES
    view,            \* "expressions" (CopyExpressionsView) or "attachments"
    item_options,    \* the option values of item_select, one per offered item
    guild_options,   \* the option values of guild_select, one per offered guild
    item_selected,   \* item_select.selected: sequence of <<item, location>>
    guild_selected,  \* guild_select.selected: sequence of guilds
    stopped,         \* View.stop() has been called
    pc,              \* where on_copy stands
    guild_iter,      \* the list the outer for loop iterates
    gi,              \* index in guild_iter of the current guild
    item_iter,       \* the list the inner for loop iterates
    ii,              \* index in item_iter of the current item
    succeeded,       \* on_copy's local list succeeded
    failed,          \* on_copy's local list failed
    name,            \* copy_emoji's local name
    image_bytes,     \* _resize_image's image_bytes
    attempts,        \* history: the copy_sticker / copy_emoji calls made
    creates,         \* history: the create_sticker / create_custom_emoji calls issued
    outcomes,        \* history: how each copy_sticker / copy_emoji call ended
    target_size,     \* _resize_image's target_size
    report,          \* the embeds of the final edit, empty before it
    filename         \* the filename a name is derived from (SpecName)

vars == <<view, item_options, guild_options, item_selected, guild_selected, stopped, pc, guild_iter, gi,
          item_iter, ii, succeeded, failed, name, image_bytes, target_size,
          attempts, creates, outcomes, report, filename>>

(***************************************************************************)
(* The values a select hands to its callback: between one (Select's        *)
(* default min_values) and max_values distinct option values, in the order *)
(* the user picked them.                                                   *)
(***************************************************************************)
ValueSeqs(options, max_values) ==
    {s \in UNION {[1..n -> options] : n \in 1..Min(max_values, Cardinality(options))} :
        \A a, b \in DOMAIN s : a # b => s[a] # s[b]}

\* max_values=min(25, len(expressions))
ExpressionMaxValues == Min(SelectCap, Cardinality(item_options))

\* max_values=len(attachments)
AttachmentMaxValues == Cardinality(item_options)

\* max_values=min(25, len(guilds))
GuildMaxValues == Min(SelectCap, Cardinality(guild_options))

(***************************************************************************)
(* copy_emoji of CopyAttachmentsView: the emoji name of a filename.        *)
(* Strings are sequences of one-character strings.                         *)
(***************************************************************************)
WordChars == {"a", "b", "c", "g", "i", "f", "m", "n", "p", "x", "y", "0", "_"}

SetMax(S) == CHOOSE m \in S : \A k \in S : k <= m

\* str.rfind: the 0-based index of the last occurrence, -1 when there is none
RFind(s, ch) ==
    LET at == {k \in 1..Len(s) : s[k] = ch}
    IN IF at = {} THEN -1 ELSE SetMax(at) - 1

\* mutant: the extension is cut at a "." at index 0 too
StripExtensionAnyDot(s) ==
    LET idx == RFind(s, ".")
    IN IF idx >= 0 THEN SubSeq(s, 1, idx) ELSE s

\* if (idx := name.rfind(".")) > 0: name = name[:idx]
StripExtension(s) ==
    LET idx == RFind(s, ".")
    IN IF idx > 0 THEN SubSeq(s, 1, idx) ELSE s

\* re.sub(r"\W", "_", name)
ReplaceNonWord(s) == [k \in 1..Len(s) |-> IF s[k] \in WordChars THEN s[k] ELSE "_"]

\* if len(name) < 2: name = "_" + name
PadName(s) == IF Len(s) < 2 THEN <<"_">> \o s ELSE s

DerivedName(fn) == PadName(ReplaceNonWord(StripExtension(fn)))

(***************************************************************************)
(* _resize_image: ceil(sqrt(len(image_bytes) / target_size)), found as the *)
(* least k whose square reaches the ratio, and Image.reduce, which divides *)
(* both sides by the factor, rounding up.                                  *)
(***************************************************************************)
RECURSIVE CeilSqrtFrom(_, _, _)
CeilSqrtFrom(k, len, target) ==
    IF k * k * target >= len THEN k ELSE CeilSqrtFrom(k + 1, len, target)

RECURSIVE FloorSqrtFrom(_, _, _)
FloorSqrtFrom(k, len, target) ==
    IF (k + 1) * (k + 1) * target > len THEN k ELSE FloorSqrtFrom(k + 1, len, target)

\* mutant: the scale factor is rounded down
ReduceFactorFloor(len, target) == FloorSqrtFrom(0, len, target)

ReduceFactor(len, target) == CeilSqrtFrom(0, len, target)

ImageReduce(dims, factor) ==
    <<(dims[1] + factor - 1) \div factor, (dims[2] + factor - 1) \div factor>>

\* mutant: a payload of exactly the budget is resized too
NeedsResizeInclusive(bytes, target) == bytes.len >= target

\* while len(image_bytes) > target_size
NeedsResize(bytes, target) == bytes.len > target

(***************************************************************************)
(* item_name of the two views and the embeds on_copy builds.               *)
(***************************************************************************)
ItemName(v, item) ==
    IF v = "attachments" THEN AttachmentFilename(item)
    ELSE IF IsGuildSticker(item) THEN ExpressionName(item)
    ELSE <<":">> \o ExpressionName(item) \o <<":">>

\* mutant: the line shows the HTTP status in place of the error code
FailureLineStatus(v, entry) ==
    [name |-> ItemName(v, entry.item), guild |-> GuildName(entry.guild),
     text |-> entry.error.text, code |-> 400]

FailureLine(v, entry) ==
    [name |-> ItemName(v, entry.item), guild |-> GuildName(entry.guild),
     text |-> entry.error.text, code |-> entry.error.code]

SucceededEmbed(s) ==
    IF Len(s) > 0 THEN << [kind |-> "succeeded", count |-> Len(s), lines |-> <<>>] >>
    ELSE <<>>

FailedEmbed(v, f) ==
    IF Len(f) > 0
    THEN << [kind |-> "failed", count |-> Len(f),
             lines |-> [k \in 1..Len(f) |-> FailureLine(v, f[k])]] >>
    ELSE <<>>

EmptyEmbed == [kind |-> "empty", count |-> 0, lines |-> <<>>]

\* mutant: no embed for a run without outcomes
BuildEmbedsNoFallback(v, s, f) == SucceededEmbed(s) \o FailedEmbed(v, f)

BuildEmbeds(v, s, f) ==
    LET embeds == SucceededEmbed(s) \o FailedEmbed(v, f)
    IN IF Len(embeds) = 0 THEN <<EmptyEmbed>> ELSE embeds

(***************************************************************************)
(* What the remote can answer.                                             *)
(***************************************************************************)
Rejections ==
    {[code |-> 30008, text |-> "Maximum number of emojis reached (50)"],
     [code |-> 50013, text |-> "Missing Permissions"]}

ReadRejections == {[code |-> 0, text |-> "404 Not Found"]}

\* the sizes a re-encoded image can have, relative to the budget
EncodedSizes(target) == {target, target + 1, 2 * target}

(***************************************************************************)
(* The state after construction of a view: nothing selected, on_copy not   *)
(* started.                                                                *)
(***************************************************************************)
Init ==
    /\ view \in {"expressions", "attachments"}
    /\ item_options = Items
    /\ guild_options = Guilds
    /\ item_selected = <<>>
    /\ guild_selected = <<>>
    /\ stopped = FALSE
    /\ pc = "idle"
    /\ guild_iter = <<>>
    /\ gi = 0
    /\ item_iter = <<>>
    /\ ii = 0
    /\ succeeded = <<>>
    /\ failed = <<>>
    /\ name = <<>>
    /\ image_bytes = NoBytes
    /\ target_size = 0
    /\ attempts = <<>>
    /\ creates = <<>>
    /\ outcomes = <<>>
    /\ report = NoReport
    /\ filename = <<>>

batchVars == <<pc, guild_iter, gi, item_iter, ii, succeeded, failed, name,
               image_bytes, target_size, attempts, creates, outcomes, report>>

(***************************************************************************)
(* The selects' callbacks.  A stopped view no longer receives              *)
(* interactions.                                                           *)
(***************************************************************************)
ExpressionSelectCallback(values) ==
    /\ ~stopped
    /\ view = "expressions"
    /\ item_selected' = [k \in 1..Len(values) |-> <<values[k], ExpressionLocationOf(values[k])>>]
    /\ UNCHANGED <<view, item_options, guild_options, guild_selected, stopped, batchVars, filename>>

\* mutant: the attachments are tagged as stickers
AttachmentSelectCallbackSticker(values) ==
    /\ ~stopped
    /\ view = "attachments"
    /\ item_selected' = [k \in 1..Len(values) |-> <<values[k], "STICKER">>]
    /\ UNCHANGED <<view, item_options, guild_options, guild_selected, stopped, batchVars, filename>>

AttachmentSelectCallback(values) ==
    /\ ~stopped
    /\ view = "attachments"
    /\ item_selected' = [k \in 1..Len(values) |-> <<values[k], "MESSAGE">>]
    /\ UNCHANGED <<view, item_options, guild_options, guild_selected, stopped, batchVars, filename>>

GuildSelectCallback(values) ==
    /\ ~stopped
    /\ guild_selected' = values
    /\ UNCHANGED <<view, item_options, guild_options, item_selected, stopped, batchVars, filename>>

(***************************************************************************)
(* The two for loops of on_copy.  The outer loop iterates the list bound   *)
(* when it started; the inner loop evaluates self.item_select.selected     *)
(* anew for every guild.                                                   *)
(***************************************************************************)
\* mutant: the outer loop ends after its first guild
NextPairOneGuild(giter, g, iiter, i) ==
    IF i < Len(iiter)
    THEN [more |-> TRUE, gi |-> g, ii |-> i + 1, items |-> iiter]
    ELSE IF g < Min(1, Len(giter)) /\ Len(item_selected) > 0
    THEN [more |-> TRUE, gi |-> g + 1, ii |-> 1, items |-> item_selected]
    ELSE [more |-> FALSE, gi |-> g, ii |-> i, items |-> iiter]

\* mutant: the loops are nested the other way round, items outside
NextPairItemMajor(giter, g, iiter, i) ==
    LET items == IF Len(iiter) = 0 THEN item_selected ELSE iiter
    IN IF g < Len(giter) /\ Len(items) > 0
       THEN [more |-> TRUE, gi |-> g + 1, ii |-> IF i = 0 THEN 1 ELSE i, items |-> items]
       ELSE IF i < Len(items) /\ Len(giter) > 0
       THEN [more |-> TRUE, gi |-> 1, ii |-> i + 1, items |-> items]
       ELSE [more |-> FALSE, gi |-> Len(giter), ii |-> i, items |-> items]

NextPair(giter, g, iiter, i) ==
    IF i < Len(iiter)
    THEN [more |-> TRUE, gi |-> g, ii |-> i + 1, items |-> iiter]
    ELSE IF g < Len(giter) /\ Len(item_selected) > 0
    THEN [more |-> TRUE, gi |-> g + 1, ii |-> 1, items |-> item_selected]
    ELSE [more |-> FALSE, gi |-> Len(giter),
          ii |-> IF g < Len(giter) THEN 0 ELSE i,
          items |-> IF g < Len(giter) THEN item_selected ELSE iiter]

\* if location == ExpressionLocation.STICKER: copy_sticker, else: copy_emoji
CopyPath(location) == IF location = "STICKER" THEN "copy_sticker" ELSE "copy_emoji"

\* copy_sticker and copy_emoji of the two views, up to their first await
EnterCopy(v, item, path) ==
    IF path = "copy_sticker"
    THEN IF v = "expressions" /\ IsGuildSticker(item)
         THEN [pc |-> "read", name |-> ExpressionName(item)]
         ELSE [pc |-> "aborted", name |-> <<>>]
    ELSE IF v = "expressions"
         THEN [pc |-> "read", name |-> ExpressionName(item)]
         ELSE [pc |-> "read", name |-> DerivedName(AttachmentFilename(item))]

NoError == [code |-> -1, text |-> ""]

\* how a copy_sticker / copy_emoji call ended, and at which of its awaits
Outcome(item, guild, kind, error) ==
    [item |-> item, guild |-> guild, kind |-> kind, error |-> error, stage |-> pc]

\* on_copy from a recorded outcome (or its start) to its next await, or to its end
Proceed(giter, g, iiter, i, s, f, o) ==
    LET p == NextPair(giter, g, iiter, i)
    IN /\ guild_iter' = giter
       /\ gi' = p.gi
       /\ ii' = p.ii
       /\ item_iter' = p.items
       /\ succeeded' = s
       /\ failed' = f
       /\ image_bytes' = NoBytes
       /\ target_size' = 0
       /\ IF p.more
          THEN LET item == p.items[p.ii][1]
                   path == CopyPath(p.items[p.ii][2])
                   e == EnterCopy(view, item, path)
               IN /\ attempts' = Append(attempts, [item |-> item, guild |-> giter[p.gi], path |-> path])
                  /\ pc' = e.pc
                  /\ name' = e.name
                  /\ outcomes' = IF e.pc = "aborted"
                                 THEN Append(o, [Outcome(item, giter[p.gi], "Exception", NoError)
                                                    EXCEPT !.stage = "enter"])
                                 ELSE o
                  /\ report' = report
          ELSE /\ attempts' = attempts
               /\ outcomes' = o
               /\ pc' = "done"
               /\ name' = <<>>
               /\ report' = BuildEmbeds(view, s, f)

CurrentItem == item_iter[ii][1]

CurrentGuild == guild_iter[gi]

\* mutant: on_copy without self.stop(), the selects keep receiving interactions
OnCopyNoStop ==
    /\ pc = "idle"
    /\ ~stopped
    /\ stopped' = stopped
    /\ Proceed(guild_selected, 0, <<>>, 0, <<>>, <<>>, <<>>)
    /\ UNCHANGED <<view, item_options, guild_options, item_selected, guild_selected, creates, filename>>

\* the Copy button
OnCopy ==
    /\ pc = "idle"
    /\ ~stopped
    /\ stopped' = TRUE
    /\ Proceed(guild_selected, 0, <<>>, 0, <<>>, <<>>, <<>>)
    /\ UNCHANGED <<view, item_options, guild_options, item_selected, guild_selected, creates, filename>>

\* the creation call a copy method issues once it has the content
CreateCall(v, item, guild, path, nm, bytes) ==
    [item |-> item, guild |-> guild, name |-> nm,
     image |-> [len |-> bytes.len, reencoded |-> bytes.reencoded],
     method |-> IF path = "copy_sticker" THEN "create_sticker" ELSE "create_custom_emoji"]

\* mutant: the creation call is issued a second time
IssueCreateRetry(bytes) ==
    /\ creates' = creates \o
                   <<CreateCall(view, CurrentItem, CurrentGuild,
                                CopyPath(item_iter[ii][2]), name, bytes),
                     CreateCall(view, CurrentItem, CurrentGuild,
                                CopyPath(item_iter[ii][2]), name, bytes)>>
    /\ pc' = "create"

IssueCreate(bytes) ==
    /\ creates' = Append(creates, CreateCall(view, CurrentItem, CurrentGuild,
                                             CopyPath(item_iter[ii][2]), name, bytes))
    /\ pc' = "create"

\* item.read() / item.to_file() returns
ReadOk ==
    /\ pc = "read"
    /\ IF view = "attachments"
       THEN /\ image_bytes' = [len |-> AttachmentSize(CurrentItem),
                               dims |-> AttachmentDims(CurrentItem),
                               reencoded |-> FALSE]
            /\ target_size' = TargetSize
            /\ pc' = "resize"
            /\ creates' = creates
       ELSE /\ IssueCreate(NoBytes)
            /\ UNCHANGED <<image_bytes, target_size>>
    /\ UNCHANGED <<view, item_options, guild_options, item_selected, guild_selected, stopped, guild_iter, gi,
                   item_iter, ii, succeeded, failed, name, attempts, outcomes,
                   report, filename>>

\* mutant: the failure is put at the front of the list
RecordFailedPrepend(error) ==
    <<[item |-> CurrentItem, guild |-> CurrentGuild, error |-> error]>> \o failed

\* except HTTPException as e: failed.append((item, guild, e))
RecordFailed(error) ==
    Append(failed, [item |-> CurrentItem, guild |-> CurrentGuild, error |-> error])

\* mutant: a pair that was copied is not recorded
RecordSucceededForgets == succeeded

\* else: succeeded.append((item, guild))
RecordSucceeded == Append(succeeded, [item |-> CurrentItem, guild |-> CurrentGuild])

ReadRejected(error) ==
    /\ pc = "read"
    /\ Len(failed) < MaxRejections
    /\ Proceed(guild_iter, gi, item_iter, ii, succeeded, RecordFailed(error),
               Append(outcomes, Outcome(CurrentItem, CurrentGuild, "HTTPException", error)))
    /\ UNCHANGED <<view, item_options, guild_options, item_selected, guild_selected, stopped, creates, filename>>

\* mutant: except Exception, so every exception is recorded as a failure
AbortCaught ==
    /\ Proceed(guild_iter, gi, item_iter, ii, succeeded, RecordFailed(NoError),
               Append(outcomes, Outcome(CurrentItem, CurrentGuild, "Exception", NoError)))
    /\ UNCHANGED <<view, item_options, guild_options, item_selected, guild_selected, stopped, creates, filename>>

\* any exception that is no HTTPException leaves on_copy
Abort ==
    /\ pc' = "aborted"
    /\ outcomes' = Append(outcomes, Outcome(CurrentItem, CurrentGuild, "Exception", NoError))
    /\ UNCHANGED <<view, item_options, guild_options, item_selected, guild_selected, stopped, guild_iter, gi,
                   item_iter, ii, succeeded, failed, name, image_bytes,
                   target_size, attempts, creates, report, filename>>

ReadRaises ==
    /\ pc = "read"
    /\ Abort

(***************************************************************************)
(* _resize_image, one iteration of its while loop per step.                *)
(***************************************************************************)
ResizeIter(encoded_len) ==
    /\ pc = "resize"
    /\ NeedsResize(image_bytes, target_size)
    /\ image_bytes' = [len |-> encoded_len,
                       dims |-> ImageReduce(image_bytes.dims,
                                            ReduceFactor(image_bytes.len, target_size)),
                       reencoded |-> TRUE]
    /\ UNCHANGED <<view, item_options, guild_options, item_selected, guild_selected, stopped, pc, guild_iter, gi,
                   item_iter, ii, succeeded, failed, name, target_size, attempts,
                   creates, outcomes, report, filename>>

\* Image.open, Image.reduce or Image.save raises
ResizeRaises ==
    /\ pc = "resize"
    /\ NeedsResize(image_bytes, target_size)
    /\ Abort

\* return image_bytes, and copy_emoji goes on to create_custom_emoji
ResizeReturn ==
    /\ pc = "resize"
    /\ ~NeedsResize(image_bytes, target_size)
    /\ IssueCreate(image_bytes)
    /\ UNCHANGED <<view, item_options, guild_options, item_selected, guild_selected, stopped, guild_iter, gi,
                   item_iter, ii, succeeded, failed, name, image_bytes,
                   target_size, attempts, outcomes, report, filename>>

(***************************************************************************)
(* guild.create_sticker / guild.create_custom_emoji returns.               *)
(***************************************************************************)
CreateOk ==
    /\ pc = "create"
    /\ Proceed(guild_iter, gi, item_iter, ii, RecordSucceeded, failed,
               Append(outcomes, Outcome(CurrentItem, CurrentGuild, "returned", NoError)))
    /\ UNCHANGED <<view, item_options, guild_options, item_selected, guild_selected, stopped, creates, filename>>

\* mutant: no except clause, the HTTPException leaves on_copy
CreateRejectedPropagates(error) ==
    /\ pc = "create"
    /\ Len(failed) < MaxRejections
    /\ pc' = "aborted"
    /\ outcomes' = Append(outcomes, Outcome(CurrentItem, CurrentGuild, "HTTPException", error))
    /\ UNCHANGED <<view, item_options, guild_options, item_selected, guild_selected, stopped, guild_iter, gi,
                   item_iter, ii, succeeded, failed, name, image_bytes,
                   target_size, attempts, creates, report, filename>>

CreateRejected(error) ==
    /\ pc = "create"
    /\ Len(failed) < MaxRejections
    /\ Proceed(guild_iter, gi, item_iter, ii, succeeded, RecordFailed(error),
               Append(outcomes, Outcome(CurrentItem, CurrentGuild, "HTTPException", error)))
    /\ UNCHANGED <<view, item_options, guild_options, item_selected, guild_selected, stopped, creates, filename>>

CreateRaises ==
    /\ pc = "create"
    /\ Abort

Next ==
    \/ /\ ~stopped
       /\ \E values \in ValueSeqs(item_options, ExpressionMaxValues) :
             ExpressionSelectCallback(values)
    \/ /\ ~stopped
       /\ \E values \in ValueSeqs(item_options, AttachmentMaxValues) :
             AttachmentSelectCallback(values)
    \/ /\ ~stopped
       /\ \E values \in ValueSeqs(guild_options, GuildMaxValues) :
             GuildSelectCallback(values)
    \/ OnCopy
    \/ ReadOk
    \/ \E error \in ReadRejections : ReadRejected(error)
    \/ ReadRaises
    \/ \E encoded_len \in EncodedSizes(target_size) : ResizeIter(encoded_len)
    \/ ResizeRaises
    \/ ResizeReturn
    \/ CreateOk
    \/ \E error \in Rejections : CreateRejected(error)
    \/ CreateRaises

Spec == Init /\ [][Next]_vars

(***************************************************************************)
(* The event loop runs a started coroutine on and the remote answers every *)
(* call; nothing makes the user pick options or press Copy.                *)
(***************************************************************************)
ProgramStep ==
    \/ ReadOk
    \/ \E error \in ReadRejections : ReadRejected(error)
    \/ ReadRaises
    \/ \E encoded_len \in EncodedSizes(target_size) : ResizeIter(encoded_len)
    \/ ResizeRaises
    \/ ResizeReturn
    \/ CreateOk
    \/ \E error \in Rejections : CreateRejected(error)
    \/ CreateRaises

FairSpec == Spec /\ WF_vars(ProgramStep)

(***************************************************************************)
(* _resize_image on its own: copy_emoji of an attachments view has read    *)
(* the content of the one selected attachment and calls _resize_image.     *)
(***************************************************************************)
PayloadSizes(target) ==
    {n \in {(k * k * target) + e : k \in 0..MaxScale, e \in {-1, 0, 1}} : n >= 1}

PayloadDims == {<<1, 1>>, <<2, 2>>, <<5, 3>>, <<128, 128>>}

InitInCopyEmoji ==
    /\ view = "attachments"
    /\ item_options = Items
    /\ guild_options = Guilds
    /\ item_selected = << <<1, "MESSAGE">> >>
    /\ guild_selected = <<1>>
    /\ stopped = TRUE
    /\ guild_iter = <<1>>
    /\ gi = 1
    /\ item_iter = << <<1, "MESSAGE">> >>
    /\ ii = 1
    /\ succeeded = <<>>
    /\ failed = <<>>
    /\ attempts = << [item |-> 1, guild |-> 1, path |-> "copy_emoji"] >>
    /\ creates = <<>>
    /\ outcomes = <<>>
    /\ report = NoReport

InitResize ==
    /\ InitInCopyEmoji
    /\ pc = "resize"
    /\ filename = <<>>
    /\ name = DerivedName(AttachmentFilename(1))
    /\ target_size = TargetSize
    /\ \E n \in PayloadSizes(TargetSize), d \in PayloadDims :
          image_bytes = [len |-> n, dims |-> d, reencoded |-> FALSE]

NextResize ==
    \/ \E encoded_len \in EncodedSizes(target_size) : ResizeIter(encoded_len)
    \/ ResizeRaises
    \/ ResizeReturn

SpecResize == InitResize /\ [][NextResize]_vars

(***************************************************************************)
(* The name derivation of copy_emoji on its own, over every filename up to *)
(* MaxNameLen characters of a small alphabet and the catalog's filenames.  *)
(***************************************************************************)
NameAlphabet == {"a", "_", ".", " ", "!"}

Filenames ==
    UNION {[1..n -> NameAlphabet] : n \in 1..MaxNameLen}
        \cup {AttachmentFilename(i) : i \in 1..3}

InitName ==
    /\ InitInCopyEmoji
    /\ pc = "name"
    /\ filename \in Filenames
    /\ name = <<>>
    /\ target_size = 0
    /\ image_bytes = NoBytes

\* copy_emoji from its entry to its await of item.read()
DeriveName ==
    /\ pc = "name"
    /\ name' = DerivedName(filename)
    /\ pc' = "read"
    /\ UNCHANGED <<view, item_options, guild_options, item_selected, guild_selected, stopped, guild_iter, gi,
                   item_iter, ii, succeeded, failed, image_bytes, target_size,
                   attempts, creates, outcomes, report, filename>>

NextName == DeriveName

SpecName == InitName /\ [][NextName]_vars

(***************************************************************************)
(* The selects on their own, for views constructed over catalogs of one    *)
(* item or guild up to one more than the cap the selects apply.  The user  *)
(* picks the first options in order, or the last ones in reverse order.    *)
(***************************************************************************)
CatalogSizes == {1, 2, SelectCap - 1, SelectCap, SelectCap + 1}

PickedValues(options, max_values) ==
    LET n == Cardinality(options)
    IN  UNION {{[j \in 1..k |-> j], [j \in 1..k |-> n + 1 - j]} :
                  k \in 1..Min(max_values, n)}

InitSelect ==
    /\ view \in {"expressions", "attachments"}
    /\ \E n \in CatalogSizes : item_options = 1..n
    /\ \E n \in CatalogSizes : guild_options = 1..n
    /\ item_selected = <<>>
    /\ guild_selected = <<>>
    /\ stopped = FALSE
    /\ pc = "idle"
    /\ guild_iter = <<>>
    /\ gi = 0
    /\ item_iter = <<>>
    /\ ii = 0
    /\ succeeded = <<>>
    /\ failed = <<>>
    /\ name = <<>>
    /\ image_bytes = NoBytes
    /\ target_size = 0
    /\ attempts = <<>>
    /\ creates = <<>>
    /\ outcomes = <<>>
    /\ report = NoReport
    /\ filename = <<>>

NextSelect ==
    \/ \E values \in PickedValues(item_options, ExpressionMaxValues) :
          ExpressionSelectCallback(values)
    \/ \E values \in PickedValues(item_options, AttachmentMaxValues) :
          AttachmentSelectCallback(values)
    \/ \E values \in PickedValues(guild_options, GuildMaxValues) :
          GuildSelectCallback(values)

SpecSelect == InitSelect /\ [][NextSelect]_vars

(***************************************************************************)
(* Vocabulary of the properties.                                           *)
(***************************************************************************)
M == Len(item_selected)

N == Len(guild_selected)

Last(seq) == seq[Len(seq)]

\* the pair of the k-th attempt (k from 1) in destination-major, item-minor order
ExpectedItem(k) == item_selected[((k - 1) % M) + 1][1]

ExpectedGuild(k) == guild_selected[((k - 1) \div M) + 1]

IsReturned(o) == o.kind = "returned"

IsRejected(o) == o.kind = "HTTPException"

IsSucceededEmbed(e) == e.kind = "succeeded"

IsFailedEmbed(e) == e.kind = "failed"

ReportSucceededCount ==
    LET se == SelectSeq(report, IsSucceededEmbed)
    IN IF Len(se) = 0 THEN 0 ELSE se[1].count

ReportFailureLines ==
    LET fe == SelectSeq(report, IsFailedEmbed)
    IN IF Len(fe) = 0 THEN <<>> ELSE fe[1].lines

OutcomesFor(item, guild) ==
    Cardinality({k \in 1..Len(succeeded) :
                    succeeded[k].item = item /\ succeeded[k].guild = guild})
    + Cardinality({k \in 1..Len(failed) :
                    failed[k].item = item /\ failed[k].guild = guild})

(***************************************************************************)
(* C1: a batch run that runs to completion on m >= 1 selected items and    *)
(* n >= 1 selected guilds has recorded exactly m*n outcomes, one for each  *)
(* (item, guild) pair.                                                     *)
(***************************************************************************)
C1_OneOutcomePerPair ==
    (pc = "done" /\ M >= 1 /\ N >= 1) =>
        /\ Len(succeeded) + Len(failed) = M * N
        /\ \A i \in 1..M, g \in 1..N :
              OutcomesFor(item_selected[i][1], guild_selected[g]) = 1

C1_Witness ==
    /\ pc = "done"
    /\ M = 2
    /\ N = 2
    /\ Len(succeeded) = 3
    /\ Len(failed) = 1

(***************************************************************************)
(* C2: when on_copy runs with no item or no guild selected, it ends at     *)
(* once with the "Please select some expressions and servers." embed and   *)
(* no copy method and no creation call is ever invoked.                    *)
(***************************************************************************)
C2_EmptySelectionEmptyReport ==
    (stopped /\ (M = 0 \/ N = 0)) =>
        /\ pc = "done"
        /\ report = <<EmptyEmbed>>
        /\ attempts = <<>>
        /\ creates = <<>>

C2_Witness ==
    /\ stopped
    /\ M = 0
    /\ N = 2
    /\ report = <<EmptyEmbed>>

(***************************************************************************)
(* C3: an HTTPException raised while copying a pair is recorded in failed  *)
(* for that pair and on_copy goes on: the next pair in order is attempted, *)
(* or, after the last pair, the report is delivered.                       *)
(***************************************************************************)
C3_RejectionNeverAborts ==
    [][(Len(outcomes') = Len(outcomes) + 1 /\ IsRejected(Last(outcomes')))
         => /\ failed' = Append(failed, [item |-> Last(attempts).item,
                                         guild |-> Last(attempts).guild,
                                         error |-> Last(outcomes').error])
            /\ succeeded' = succeeded
            /\ IF Len(attempts) < M * N
               THEN /\ pc' = "read"
                    /\ Len(attempts') = Len(attempts) + 1
                    /\ Last(attempts').item = ExpectedItem(Len(attempts) + 1)
                    /\ Last(attempts').guild = ExpectedGuild(Len(attempts) + 1)
               ELSE /\ pc' = "done"
                    /\ report' # NoReport]_vars

C3_Witness ==
    /\ pc = "done"
    /\ Len(outcomes) = 4
    /\ IsRejected(outcomes[1])
    /\ IsReturned(outcomes[2])
    /\ IsRejected(outcomes[4])
    /\ report # NoReport

(***************************************************************************)
(* C4: an exception other than HTTPException raised while copying a pair   *)
(* ends on_copy at that pair: no later pair is attempted and no report is  *)
(* ever delivered.                                                         *)
(***************************************************************************)
C4_OtherExceptionAborts ==
    /\ [][(Len(outcomes') > Len(outcomes) /\ Last(outcomes').kind = "Exception")
            => (pc' = "aborted" /\ report' = NoReport)]_vars
    /\ [][pc = "aborted"
            => (pc' = "aborted" /\ attempts' = attempts /\ creates' = creates
                /\ report' = NoReport)]_vars
    /\ [](pc = "aborted"
            => (report = NoReport /\ Len(outcomes) = Len(attempts)
                /\ Last(outcomes).kind = "Exception"))

C4_Witness ==
    /\ pc = "aborted"
    /\ M = 2
    /\ N = 2
    /\ Len(attempts) = 2
    /\ Len(succeeded) = 1

(***************************************************************************)
(* C5: the report of a completed batch counts the pairs whose creation     *)
(* call returned and lists one line per pair that raised HTTPException,    *)
(* with that pair's item name and guild name and the exception's text and  *)
(* code; with no rejection the count is m*n and there is no failure line.  *)
(***************************************************************************)
C5_ReportMatchesOutcomes ==
    pc = "done" =>
        LET ok == SelectSeq(outcomes, IsReturned)
            rej == SelectSeq(outcomes, IsRejected)
        IN /\ ReportSucceededCount = Len(ok)
           /\ Len(succeeded) = Len(ok)
           /\ ReportFailureLines =
                 [k \in 1..Len(rej) |->
                     [name |-> ItemName(view, rej[k].item),
                      guild |-> GuildName(rej[k].guild),
                      text |-> rej[k].error.text,
                      code |-> rej[k].error.code]]
           /\ (Len(rej) = 0 => (ReportSucceededCount = M * N /\ ReportFailureLines = <<>>))

C5_Witness ==
    /\ pc = "done"
    /\ M = 2
    /\ N = 2
    /\ ReportSucceededCount = 3
    /\ Len(ReportFailureLines) = 1
    /\ ReportFailureLines[1].code = 30008
    /\ ReportFailureLines[1].name = ItemName(view, item_selected[2][1])

LineGuildIndex(line) == CHOOSE d \in 1..N : GuildName(guild_selected[d]) = line.guild

LineItemIndex(line) == CHOOSE i \in 1..M : ItemName(view, item_selected[i][1]) = line.name

LinePrecedes(x, y) ==
    \/ LineGuildIndex(x) < LineGuildIndex(y)
    \/ LineGuildIndex(x) = LineGuildIndex(y) /\ LineItemIndex(x) < LineItemIndex(y)

(***************************************************************************)
(* C6: the failure lines of the report are in attempt order: a line of an  *)
(* earlier selected guild, or of the same guild and an earlier selected    *)
(* item, comes first.                                                      *)
(***************************************************************************)
C6_FailuresInAttemptOrder ==
    pc = "done" =>
        \A a, b \in 1..Len(ReportFailureLines) :
            LinePrecedes(ReportFailureLines[a], ReportFailureLines[b]) => a < b

C6_Witness ==
    /\ pc = "done"
    /\ Len(ReportFailureLines) = 2
    /\ ReportFailureLines[1].guild # ReportFailureLines[2].guild
    /\ ReportFailureLines[1].name # ReportFailureLines[2].name

AttemptOf(call) ==
    CHOOSE k \in 1..Len(attempts) :
        attempts[k].item = call.item /\ attempts[k].guild = call.guild

(***************************************************************************)
(* C7: the k-th copy attempt (k from 0) is for the guild at index          *)
(* floor(k / m) and the item at index k mod m of the selection, and the    *)
(* creation calls are issued in that same order.                           *)
(***************************************************************************)
C7_DestinationMajorOrder ==
    stopped =>
        /\ Len(attempts) <= M * N
        /\ \A k \in 1..Len(attempts) :
              /\ attempts[k].item = ExpectedItem(k)
              /\ attempts[k].guild = ExpectedGuild(k)
        /\ \A a, b \in 1..Len(creates) :
              a < b => AttemptOf(creates[a]) < AttemptOf(creates[b])

C7_Witness ==
    /\ M = 2
    /\ N = 2
    /\ Len(attempts) = 4
    /\ Len(creates) = 4

(***************************************************************************)
(* C8: _resize_image called with len(image_bytes) <= target_size, the      *)
(* equal case included, returns the bytes it was given without opening,    *)
(* reducing or saving an image.                                            *)
(***************************************************************************)
C8_WithinBudgetIsNoOp ==
    [][(pc = "resize" /\ ~image_bytes.reencoded /\ image_bytes.len <= target_size)
         => /\ pc' = "create"
            /\ image_bytes' = image_bytes
            /\ Len(creates') = Len(creates) + 1
            /\ Last(creates').image = [len |-> image_bytes.len, reencoded |-> FALSE]]_vars

C8_Witness ==
    /\ pc = "create"
    /\ ~image_bytes.reencoded
    /\ image_bytes.len = target_size
    /\ Last(creates).image.len = TargetSize

(***************************************************************************)
(* C9: _resize_image always terminates: a call that has entered its loop   *)
(* leaves it, with a result or an error.                                   *)
(***************************************************************************)
C9_ResizeTerminates == (pc = "resize") ~> (pc # "resize")

LastDot(fn) ==
    IF \E k \in 1..Len(fn) : fn[k] = "."
    THEN CHOOSE k \in 1..Len(fn) : fn[k] = "." /\ \A j \in (k + 1)..Len(fn) : fn[j] # "."
    ELSE 0

StemLen(fn) == IF LastDot(fn) > 1 THEN LastDot(fn) - 1 ELSE Len(fn)

MyPicPng == <<"m", "y", " ", "p", "i", "c", "!", "!", ".", "p", "n", "g">>

(***************************************************************************)
(* C10: the emoji name of a filename is the filename cut before its last   *)
(* "." when that is not its first character, with every non-word character*)
(* replaced by "_", and with one "_" in front if that is shorter than 2    *)
(* characters; it has only word characters and at least 2 of them.         *)
(***************************************************************************)
C10_DerivedName ==
    pc = "read" =>
        LET pad == IF StemLen(filename) < 2 THEN 1 ELSE 0
        IN /\ Len(name) = StemLen(filename) + pad
           /\ pad = 1 => name[1] = "_"
           /\ \A k \in 1..StemLen(filename) :
                 name[k + pad] = IF filename[k] \in WordChars THEN filename[k] ELSE "_"
           /\ \A k \in 1..Len(name) : name[k] \in WordChars
           /\ Len(name) >= 2
           /\ filename = MyPicPng => name = <<"m", "y", "_", "p", "i", "c", "_", "_">>

C10_Witness ==
    /\ pc = "read"
    /\ filename = <<".", "x">>
    /\ name = <<"_", "x">>

PendingCreates ==
    {c \in 1..Len(creates) :
        ~\E o \in 1..Len(outcomes) :
            outcomes[o].item = creates[c].item /\ outcomes[o].guild = creates[c].guild}

(***************************************************************************)
(* C11: at most one creation call is in flight, it is the call of the pair *)
(* attempted last, and a pair is attempted only when every pair before it  *)
(* has ended and has its entry in succeeded or failed.                     *)
(***************************************************************************)
C11_OneCallInFlight ==
    /\ Cardinality(PendingCreates) <= 1
    /\ (pc = "create") <=> (PendingCreates # {})
    /\ PendingCreates # {} =>
          /\ PendingCreates = {Len(creates)}
          /\ Last(creates).item = Last(attempts).item
          /\ Last(creates).guild = Last(attempts).guild
    /\ Len(attempts) > 0 =>
          /\ Len(outcomes) >= Len(attempts) - 1
          /\ Len(succeeded) + Len(failed) >= Len(attempts) - 1
          /\ \A k \in 1..(Len(attempts) - 1) :
                OutcomesFor(attempts[k].item, attempts[k].guild) = 1

C11_Witness ==
    /\ pc = "create"
    /\ Len(attempts) = 3
    /\ Len(creates) = 3
    /\ Len(succeeded) + Len(failed) = 2
    /\ PendingCreates = {3}

CreatesFor(item, guild) ==
    Cardinality({c \in 1..Len(creates) :
                    creates[c].item = item /\ creates[c].guild = guild})

FetchRejected(item, guild) ==
    \E o \in 1..Len(outcomes) :
        /\ outcomes[o].item = item
        /\ outcomes[o].guild = guild
        /\ outcomes[o].kind = "HTTPException"
        /\ outcomes[o].stage = "read"

(***************************************************************************)
(* C12 as stated: every pair recorded in succeeded or failed has exactly   *)
(* one creation call, never none and never more than one.                  *)
(***************************************************************************)
C12_ExactlyOneCreatePerRecordedPair ==
    /\ \A k \in 1..Len(succeeded) :
          CreatesFor(succeeded[k].item, succeeded[k].guild) = 1
    /\ \A k \in 1..Len(failed) :
          CreatesFor(failed[k].item, failed[k].guild) = 1

(***************************************************************************)
(* C12: no pair ever has more than one creation call; a pair recorded as   *)
(* succeeded has exactly one; a pair recorded as failed has one, or none   *)
(* exactly when fetching the item's content raised the HTTPException.      *)
(***************************************************************************)
C12_AtMostOneCreatePerPair ==
    /\ \A k \in 1..Len(attempts) :
          CreatesFor(attempts[k].item, attempts[k].guild) <= 1
    /\ \A c \in 1..Len(creates) :
          \E k \in 1..Len(attempts) :
              attempts[k].item = creates[c].item /\ attempts[k].guild = creates[c].guild
    /\ \A k \in 1..Len(succeeded) :
          CreatesFor(succeeded[k].item, succeeded[k].guild) = 1
    /\ \A k \in 1..Len(failed) :
          /\ CreatesFor(failed[k].item, failed[k].guild) <= 1
          /\ (CreatesFor(failed[k].item, failed[k].guild) = 0)
                <=> FetchRejected(failed[k].item, failed[k].guild)

C12_Witness ==
    /\ Len(succeeded) >= 1
    /\ \E j, k \in 1..Len(failed) :
          /\ CreatesFor(failed[j].item, failed[j].guild) = 0
          /\ CreatesFor(failed[k].item, failed[k].guild) = 1

(***************************************************************************)
(* C13: in every reachable state the chosen item sequence has at most 25   *)
(* entries and the chosen guild sequence has at most 25 entries, whatever  *)
(* the number of options the selects offer.                                *)
(***************************************************************************)
C13_SelectionsAtMost25 ==
    /\ Len(item_selected) <= SelectCap
    /\ Len(guild_selected) <= SelectCap

\* the part of C13 the selects built with min(25, ...) satisfy
C13_CappedSelectsAtMost25 ==
    /\ view = "expressions" => Len(item_selected) <= SelectCap
    /\ Len(guild_selected) <= SelectCap

IsStickerKind(item) == view = "expressions" /\ IsGuildSticker(item)

(***************************************************************************)
(* C14: every attempted pair goes to copy_sticker, and from there to       *)
(* create_sticker, if and only if its item is a sticker, and to copy_emoji *)
(* and create_custom_emoji otherwise; no copy_sticker call ends at its     *)
(* entry check (the assert of CopyExpressionsView.copy_sticker, the        *)
(* Exception of CopyAttachmentsView.copy_sticker).                         *)
(***************************************************************************)
C14_StickerPathIffSticker ==
    /\ \A k \in 1..Len(attempts) :
          /\ attempts[k].path \in {"copy_sticker", "copy_emoji"}
          /\ (attempts[k].path = "copy_sticker") <=> IsStickerKind(attempts[k].item)
    /\ \A c \in 1..Len(creates) :
          /\ creates[c].method \in {"create_sticker", "create_custom_emoji"}
          /\ (creates[c].method = "create_sticker") <=> IsStickerKind(creates[c].item)
    /\ \A o \in 1..Len(outcomes) : outcomes[o].stage # "enter"

C14_Witness ==
    /\ view = "expressions"
    /\ \E j, k \in 1..Len(creates) :
          /\ IsGuildSticker(creates[j].item)
          /\ creates[j].method = "create_sticker"
          /\ ~IsGuildSticker(creates[k].item)
          /\ creates[k].method = "create_custom_emoji"
    /\ \E o \in 1..Len(outcomes) :
          IsGuildSticker(outcomes[o].item) /\ outcomes[o].kind = "returned"

CeilDiv(a, b) == (a + b - 1) \div b

(***************************************************************************)
(* C16: every iteration of the while loop of _resize_image reduces the     *)
(* image by an integer factor f that is at least 2 and is the least        *)
(* integer whose square times target_size reaches len(image_bytes); the    *)
(* image is never reduced by 1.                                            *)
(***************************************************************************)
C16_ReduceFactorAtLeastTwo ==
    [][pc = "resize" /\ pc' = "resize" =>
          /\ image_bytes.len > target_size
          /\ target_size > 0
          /\ \E f \in 2..(MaxScale + 2) :
                /\ f * f * target_size >= image_bytes.len
                /\ (f - 1) * (f - 1) * target_size < image_bytes.len
                /\ image_bytes'.dims = <<CeilDiv(image_bytes.dims[1], f),
                                         CeilDiv(image_bytes.dims[2], f)>>]_vars

\* a 128 x 128 payload of more than four budgets has been reduced by 3 and
\* is still over the budget
C16_Witness ==
    /\ pc = "resize"
    /\ image_bytes.reencoded
    /\ image_bytes.dims = <<43, 43>>
    /\ image_bytes.len > target_size

====
